---- MODULE Spec2Model ----
(***************************************************************************)
(* A model of the CV / cover-letter generator:                             *)
(*   utils/gemini_client.py  - GeminiClient (credential, prompt            *)
(*                             rendering, output sanitizer)                *)
(*   utils/latex_handler.py  - compile_latex_to_pdf                        *)
(*   app.py                  - the Streamlit script (one rerun per user    *)
(*                             interaction) and its session state          *)
(*                                                                         *)
(* Texts are sequences of characters (one-character strings).  Six         *)
(* specifications share the module, one per component:                     *)
(*   SpecClean    the sanitizer applied to bounded texts                   *)
(*   SpecPrompt   the prompt rendering of generate_cv_latex                *)
(*   SpecParse    parse_cv applied to bounded file names                   *)
(*   SpecCompile  compile_latex_to_pdf, one step per file-system or        *)
(*                sub-process interaction                                  *)
(*   Spec         the application session, one action per rerun            *)
(*   SpecUsers    two sessions in one process, one step per statement      *)
(***************************************************************************)
EXTENDS Integers, Sequences, FiniteSets, TLC

VARIABLES
    \* ---- sanitizer (SpecClean)
    text,          \* the raw completion handed to _clean_output
    cleaned,       \* _clean_output(text), once applied
    recleaned,     \* _clean_output(cleaned), once applied
    cpc,           \* "raw" -> "once" -> "twice"
    \* ---- generate_cv_latex (SpecPrompt)
    original_cv, job_description, company_name,   \* the arguments
    latex_template, enhancement_mode, language,
    prompt,        \* the rendered prompt, once built
    ppc,           \* "args" -> "rendered"
    \* ---- compile_latex_to_pdf (SpecCompile)
    latex_content,       \* the argument
    pdflatex_installed,  \* whether the pdflatex binary can be found
    temp_dir,            \* the scratch directory: file name -> content
    dir_exists,          \* whether the scratch directory exists
    pass,                \* the loop variable of "for _ in range(2)"
    runs,                \* the calls of subprocess.run made so far
    result,              \* the returned tuple, None before the return
    fault,               \* the exception caught, "none" if none
    pdf_at_return,       \* whether document.pdf existed at the return
    log_at_return,       \* the bytes of document.log at the return, None
                         \*   when there was no such file
    kpc,                 \* "call" -> "write" -> "run" -> "check" -> "done"
    \* ---- parse_cv (SpecParse)
    cv_file,             \* the uploaded file: <<name, size, what the extractor
                         \*   of its format gives: a text or an exception>>
    parse_out,           \* what parse_cv gave, None before the call
    xpc,                 \* "call" -> "done"
    \* ---- the application session (Spec)
    env_key,             \* os.getenv('GEMINI_API_KEY'): None when unset
    genai_key,           \* the key last given to genai.configure
    session,             \* st.session_state
    api_key,             \* the widgets: the key field of the sidebar,
    uploaded_file,       \*   the CV uploader (None: no file),
    ui_company_name,     \*   the company name field,
    ui_job_description,  \*   the job description field
    requests,            \* the requests that the last rerun made to the
                         \*   completion service, in order
    shown,               \* the messages the last rerun displayed
    event,               \* the last rerun: <<the interaction that caused it,
                         \*   whether the service failed>>
    direct,              \* the outcome of a GeminiClient(...) made outside
                         \*   the session since the last rerun, None if none
    \* ---- two users of one server process (SpecUsers)
    users,               \* per user: where the script thread is, and the
                         \*   GeminiClient of the user's session
    sent                 \* the requests made to the completion service

cleanVars == <<text, cleaned, recleaned, cpc>>
promptVars == <<original_cv, job_description, company_name, latex_template,
                enhancement_mode, language, prompt, ppc>>

compileVars == <<latex_content, pdflatex_installed, temp_dir, dir_exists, pass,
                 runs, result, fault, pdf_at_return, log_at_return, kpc>>

widgetVars == <<api_key, uploaded_file, ui_company_name, ui_job_description>>
appVars == <<env_key, genai_key, session, widgetVars, requests, shown, event, direct>>

parseVars == <<cv_file, parse_out, xpc>>

usersVars == <<users, sent>>

vars == <<cleanVars, promptVars, compileVars, parseVars, appVars, usersVars>>

\* Python's None: a one-element tuple that is no text (its element is no
\* character), so that it can be compared with texts.
None == <<"None">>

\* an outcome of a call into the environment: it raises an exception
RAISES == <<"raises">>

\* Python truthiness of an optional string
Truthy(v) == v # None /\ v # <<>>

(***************************************************************************)
(* Characters.  BT is the backtick (spelled out, the lexer does not take   *)
(* it inside a string), NL the line break, SP a blank; "a" stands for any  *)
(* other character.  str.strip() removes both kinds of whitespace.         *)
(***************************************************************************)
BT == "backtick"
NL == "\n"
SP == " "
FENCE == <<BT, BT, BT>>

\* Bound: an input text is the concatenation of at most MaxChunks chunks.
MaxChunks == 6

Chunks == {FENCE, <<BT>>, <<NL>>, <<SP>>, <<"a">>}

IsSpace(c) == c \in {SP, NL}

RECURSIVE lstrip(_)
lstrip(s) == IF s = <<>> THEN s
             ELSE IF IsSpace(Head(s)) THEN lstrip(Tail(s)) ELSE s

RECURSIVE rstrip(_)
rstrip(s) == IF s = <<>> THEN s
             ELSE IF IsSpace(s[Len(s)]) THEN rstrip(SubSeq(s, 1, Len(s) - 1)) ELSE s

\* A plausible slip: trimming only the leading whitespace.
strip_left_only(s) == lstrip(s)

\* str.strip()
strip(s) == rstrip(lstrip(s))

\* str.startswith / str.endswith
startswith(s, p) == Len(s) >= Len(p) /\ SubSeq(s, 1, Len(p)) = p
endswith(s, p) == Len(s) >= Len(p) /\ SubSeq(s, Len(s) - Len(p) + 1, Len(s)) = p

\* str.find(c): the 0-based index of the first c, -1 when there is none
find(s, c) == IF \E i \in 1..Len(s) : s[i] = c
              THEN (CHOOSE i \in 1..Len(s) : s[i] = c /\ \A j \in 1..(i - 1) : s[j] # c) - 1
              ELSE -1

\* s[i:] for a 0-based i
slice_from(s, i) == SubSeq(s, i + 1, Len(s))

\* s.replace(FENCE, ""): non-overlapping occurrences, left to right
RECURSIVE replace_fence(_)
replace_fence(s) == IF s = <<>> THEN s
                    ELSE IF startswith(s, FENCE) THEN replace_fence(SubSeq(s, 4, Len(s)))
                    ELSE <<Head(s)>> \o replace_fence(Tail(s))

\* A plausible slip: the surrounding whitespace is never trimmed.
clean_output_no_strip(raw) ==
    LET first_newline == find(raw, NL)
        t1 == IF startswith(raw, FENCE)
              THEN IF first_newline # -1
                   THEN slice_from(raw, first_newline + 1)
                   ELSE replace_fence(raw)
              ELSE raw
    IN IF endswith(t1, FENCE) THEN SubSeq(t1, 1, Len(t1) - 3) ELSE t1

\* A plausible slip: every fence marker is deleted, wherever it stands.
clean_output_replace_all(raw) == strip(replace_fence(strip(raw)))

\* GeminiClient._clean_output
clean_output(raw) ==
    LET t0 == strip(raw)
        first_newline == find(t0, NL)
        t1 == IF startswith(t0, FENCE)
              THEN IF first_newline # -1
                   THEN strip(slice_from(t0, first_newline))
                   ELSE strip(replace_fence(t0))
              ELSE t0
    IN IF endswith(t1, FENCE) THEN strip(SubSeq(t1, 1, Len(t1) - 3)) ELSE t1

RECURSIVE ChunkTexts(_)
ChunkTexts(n) == IF n = 0 THEN {<<>>}
                 ELSE LET shorter == ChunkTexts(n - 1)
                      IN shorter \cup {c \o s : c \in Chunks, s \in shorter}

InitClean ==
    /\ text \in ChunkTexts(MaxChunks)
    /\ cleaned = None
    /\ recleaned = None
    /\ cpc = "raw"

IdleClean ==
    /\ text = <<>>
    /\ cleaned = None
    /\ recleaned = None
    /\ cpc = "idle"

\* response.text is sanitized before it is returned
CleanOnce ==
    /\ cpc = "raw"
    /\ cleaned' = clean_output(text)
    /\ cpc' = "once"
    /\ UNCHANGED <<text, recleaned, promptVars, compileVars, parseVars, appVars, usersVars>>

\* the sanitized text is sanitized again
CleanTwice ==
    /\ cpc = "once"
    /\ recleaned' = clean_output(cleaned)
    /\ cpc' = "twice"
    /\ UNCHANGED <<text, cleaned, promptVars, compileVars, parseVars, appVars, usersVars>>

NextClean == CleanOnce \/ CleanTwice

(***************************************************************************)
(* generate_cv_latex: the prompt.  The f-string of lines 120-152 is the    *)
(* concatenation of its literal pieces and of the interpolated values.     *)
(* A literal piece is one element (a string naming it by its first words); *)
(* an interpolated value is a sequence of characters.                      *)
(***************************************************************************)
ROLE_PREAMBLE == "You are an expert CV/resume writer and LaTeX specialist."
GIVEN == "Given the following information:"
HDR_ORIGINAL_CV == "ORIGINAL CV:"
HDR_JOB_DESCRIPTION == "JOB DESCRIPTION:"
HDR_COMPANY_NAME == "COMPANY NAME:"
HDR_OUTPUT_LANGUAGE == "OUTPUT LANGUAGE:"
TASK_1_TO_3 == "Your task: 1. Analyze ... 2. Tailor ... 3. Generate a complete, professional LaTeX document for the CV in the specified OUTPUT LANGUAGE ("
TASK_3_TO_6 == ") 4. Use a modern, clean CV template ... 5. Emphasize ... 6. Ensure the LaTeX code is complete and compilable"
USE_TEMPLATE == "Use this LaTeX template structure:"
CRITICAL_FONTS == "CRITICAL: To avoid font errors, ALWAYS include these two lines in the preamble: \\usepackage[T1]{fontenc} \\usepackage{lmodern}"
CRITICAL_RAW_ONLY == "CRITICAL: Output ONLY the raw text. Do NOT wrap the output in markdown code blocks (no triple backticks)."
START_END == "Start directly with \\documentclass and end with \\end{document}."

\* the three directive blocks (lines 87-95, 97-107, 109-118)
BLOCK_CONSERVATIVE == "ENHANCEMENT MODE: CONSERVATIVE (Styling Only) ..."
BLOCK_AGGRESSIVE == "ENHANCEMENT MODE: AGGRESSIVE (Maximum Impact) ..."
BLOCK_BALANCED == "ENHANCEMENT MODE: BALANCED (Add Relevant Details) ..."
Blocks == {BLOCK_CONSERVATIVE, BLOCK_AGGRESSIVE, BLOCK_BALANCED}

\* the radio options of the application (app.py lines 239-241); the leading
\* pictograph is one character
OPTION_CONSERVATIVE ==
    <<"[art]", " ", "C", "o", "n", "s", "e", "r", "v", "a", "t", "i", "v",
      "e", " ", "(", "S", "t", "y", "l", "i", "n", "g", " ", "O", "n", "l",
      "y", ")">>
OPTION_BALANCED ==
    <<"[scales]", " ", "B", "a", "l", "a", "n", "c", "e", "d", " ", "(", "A",
      "d", "d", " ", "R", "e", "l", "e", "v", "a", "n", "t", " ", "D", "e",
      "t", "a", "i", "l", "s", ")">>
OPTION_AGGRESSIVE ==
    <<"[rocket]", " ", "A", "g", "g", "r", "e", "s", "s", "i", "v", "e", " ",
      "(", "M", "a", "x", "i", "m", "u", "m", " ", "I", "m", "p", "a", "c",
      "t", ")">>
\* other mode strings a caller of generate_cv_latex may pass
MODE_DEFAULT ==
    <<"b", "a", "l", "a", "n", "c", "e", "d">>
MODE_LOWER_CONSERVATIVE ==
    <<"c", "o", "n", "s", "e", "r", "v", "a", "t", "i", "v", "e">>
MODE_UPPER_AGGRESSIVE ==
    <<"A", "G", "G", "R", "E", "S", "S", "I", "V", "E">>
MODE_BOTH ==
    <<"A", "g", "g", "r", "e", "s", "s", "i", "v", "e", ",", " ", "n", "o",
      "t", " ", "c", "o", "n", "s", "e", "r", "v", "a", "t", "i", "v", "e">>
MODE_TRUNCATED ==
    <<"a", "g", "g", "r", "e", "s", "s", "i", "v">>
MODE_UNKNOWN ==
    <<"t", "u", "r", "b", "o">>
\* the keywords searched for (lines 86 and 96)
KEY_CONSERVATIVE ==
    <<"c", "o", "n", "s", "e", "r", "v", "a", "t", "i", "v", "e">>
KEY_AGGRESSIVE ==
    <<"a", "g", "g", "r", "e", "s", "s", "i", "v", "e">>

Modes == {OPTION_CONSERVATIVE, OPTION_BALANCED, OPTION_AGGRESSIVE, MODE_DEFAULT,
          MODE_LOWER_CONSERVATIVE, MODE_UPPER_AGGRESSIVE, MODE_BOTH,
          MODE_TRUNCATED, MODE_UNKNOWN, KEY_AGGRESSIVE, <<>>}

\* the options of the language selector (app.py line 252)
ENGLISH == <<"E", "n", "g", "l", "i", "s", "h">>
BAHASA_INDONESIA == <<"B", "a", "h", "a", "s", "a", " ", "I", "n", "d", "o", "n",
                      "e", "s", "i", "a">>
Languages == {ENGLISH, BAHASA_INDONESIA}

UPPER == <<"A", "B", "C", "D", "E", "F", "G", "H", "I", "J", "K", "L", "M",
           "N", "O", "P", "Q", "R", "S", "T", "U", "V", "W", "X", "Y", "Z">>
LOWER == <<"a", "b", "c", "d", "e", "f", "g", "h", "i", "j", "k", "l", "m",
           "n", "o", "p", "q", "r", "s", "t", "u", "v", "w", "x", "y", "z">>

\* str.lower()
lower_char(c) == IF \E i \in 1..26 : UPPER[i] = c
                 THEN LOWER[CHOOSE i \in 1..26 : UPPER[i] = c]
                 ELSE c
lower(s) == [i \in 1..Len(s) |-> lower_char(s[i])]

\* sub in s
contains(sub, s) ==
    \E i \in 1..(Len(s) - Len(sub) + 1) : SubSeq(s, i, i + Len(sub) - 1) = sub

\* A plausible slip: the mode is matched without lower-casing it.
mode_instructions_case_sensitive(mode) ==
    IF contains(KEY_CONSERVATIVE, mode) THEN <<BLOCK_CONSERVATIVE>>
    ELSE IF contains(KEY_AGGRESSIVE, mode) THEN <<BLOCK_AGGRESSIVE>>
    ELSE <<BLOCK_BALANCED>>

\* lines 85-118
mode_instructions(mode) ==
    IF contains(KEY_CONSERVATIVE, lower(mode)) THEN <<BLOCK_CONSERVATIVE>>
    ELSE IF contains(KEY_AGGRESSIVE, lower(mode)) THEN <<BLOCK_AGGRESSIVE>>
    ELSE <<BLOCK_BALANCED>>

\* A plausible slip: the template heading is emitted whether or not a
\* template was supplied.
template_instruction_always(template) ==
    <<USE_TEMPLATE>> \o (IF Truthy(template) THEN template ELSE <<>>)

\* lines 80-83
template_instruction(template) ==
    IF Truthy(template) THEN <<USE_TEMPLATE>> \o template ELSE <<>>

\* lines 120-152
cv_prompt(cv, jd, company, template, mode, lang) ==
    <<ROLE_PREAMBLE, GIVEN, HDR_ORIGINAL_CV>> \o cv
    \o <<HDR_JOB_DESCRIPTION>> \o jd
    \o <<HDR_COMPANY_NAME>> \o company
    \o <<HDR_OUTPUT_LANGUAGE>> \o lang
    \o mode_instructions(mode)
    \o <<TASK_1_TO_3>> \o lang \o <<TASK_3_TO_6>>
    \o template_instruction(template)
    \o <<CRITICAL_FONTS, CRITICAL_RAW_ONLY, START_END>>

\* Bound: the length of an argument text.
MaxText == 2

RECURSIVE TextsOver(_, _)
TextsOver(alphabet, n) ==
    IF n = 0 THEN {<<>>}
    ELSE LET shorter == TextsOver(alphabet, n - 1)
         IN shorter \cup {<<c>> \o t : c \in alphabet, t \in shorter}

InitPrompt ==
    /\ original_cv \in TextsOver({"x", "y"}, MaxText)
    /\ job_description \in TextsOver({"x", "y"}, MaxText)
    /\ company_name \in TextsOver({"x"}, MaxText)
    /\ latex_template \in {None} \cup TextsOver({"y"}, MaxText)
    /\ enhancement_mode \in Modes
    /\ language \in Languages
    /\ prompt = None
    /\ ppc = "args"

IdlePrompt ==
    /\ original_cv = <<>>
    /\ job_description = <<>>
    /\ company_name = <<>>
    /\ latex_template = None
    /\ enhancement_mode = MODE_DEFAULT
    /\ language = ENGLISH
    /\ prompt = None
    /\ ppc = "idle"

\* generate_cv_latex up to the request (line 154): the prompt is rendered
RenderCvPrompt ==
    /\ ppc = "args"
    /\ prompt' = cv_prompt(original_cv, job_description, company_name,
                           latex_template, enhancement_mode, language)
    /\ ppc' = "rendered"
    /\ UNCHANGED <<original_cv, job_description, company_name, latex_template,
                   enhancement_mode, language, cleanVars, compileVars, parseVars, appVars, usersVars>>

NextPrompt == RenderCvPrompt

(***************************************************************************)
(* compile_latex_to_pdf.  The scratch directory is a function from file    *)
(* names to contents.  The file system, the pdflatex process and its       *)
(* timeout are the environment: each interaction with them is one step,    *)
(* and every outcome the call can meet is a choice of that step.  A return *)
(* leaves the "with tempfile.TemporaryDirectory()" block, which deletes    *)
(* the directory.                                                          *)
(***************************************************************************)
TEX == "document.tex"
PDF == "document.pdf"
LOG == "document.log"

\* range(2), line 52
PASSES == 2
\* timeout=30, line 57
TIMEOUT == 30

MSG_FAILED == <<"PDF compilation failed.">>
MSG_TIMEOUT == <<"LaTeX compilation timed out (30s limit)">>
MSG_NOT_FOUND == <<"pdflatex not found. Please install a LaTeX distribution (MiKTeX, TeX Live, or MacTeX)">>
MSG_ERROR == <<"Compilation error: ">>

\* str(e) of an exception other than the two named ones
STR_OSERROR == <<"[Errno 13] Permission denied">>

\* the bytes of the PDF that pdflatex makes of a source
PdfOf(source) == <<"%PDF">> \o source

\* Bound: the length of document.log, in characters.
MaxLog == 3

\* a byte that is not valid UTF-8
BAD == "\\xff"

\* document.log is a sequence of bytes: error markers, other characters,
\* line breaks and bytes that are not valid UTF-8
Logs == TextsOver({"!", "e", NL, BAD}, MaxLog)

\* A plausible slip: the log is read as it is.
decode_strict(bytes) == bytes

\* open(log_file, 'r', encoding='utf-8', errors='ignore') and f.read()
\* (lines 70-71): the bytes that do not decode are left out
decode(bytes) == SelectSeq(bytes, LAMBDA b : b # BAD)

\* d with file name n holding content c
WithFile(d, n, c) == [m \in DOMAIN d \cup {n} |-> IF m = n THEN c ELSE d[m]]

NoFiles == [m \in {} |-> <<>>]

\* Path.exists()
exists(d, n) == n \in DOMAIN d

\* A plausible slip: the exit code of the last run decides, not the file.
exists_and_exit_zero(d, n) ==
    n \in DOMAIN d /\ runs # <<>> /\ runs[Len(runs)].returncode = 0

\* pdf_file.exists(), line 61
pdf_created(d, n) == exists(d, n)

\* str.split(NL)
RECURSIVE split(_)
split(s) == IF find(s, NL) = -1 THEN <<s>>
            ELSE <<SubSeq(s, 1, find(s, NL))>> \o split(slice_from(s, find(s, NL) + 1))

\* lines 73-76: the first line that starts with the error marker
RECURSIVE first_error_line(_, _)
first_error_line(lines, default) ==
    IF lines = <<>> THEN default
    ELSE IF startswith(Head(lines), <<"!">>) THEN Head(lines)
    ELSE first_error_line(Tail(lines), default)

\* A plausible slip: the marker is cut off the diagnostic.
error_from_log_without_marker(log_content) ==
    LET line == first_error_line(split(log_content), MSG_FAILED)
    IN IF line = MSG_FAILED THEN line ELSE Tail(line)

\* lines 68-76, given the content read from document.log
error_from_log(log_content) == first_error_line(split(log_content), MSG_FAILED)

\* A plausible slip: a failed first run ends the loop (check=True).
after_run_checked(i, returncode) ==
    IF returncode # 0 THEN "check" ELSE IF i + 1 < PASSES THEN "run" ELSE "check"

\* lines 52-58: where control goes after run number i (0-based) returned;
\* the exit code is not looked at
after_run(i, returncode) == IF i + 1 < PASSES THEN "run" ELSE "check"

\* one call of subprocess.run (lines 53-58): the arguments, and how it ended
\* (returncode is None unless it returned)
Invocation(outcome, returncode) ==
    [source |-> TEX, timeout |-> TIMEOUT, outcome |-> outcome, returncode |-> returncode]

InitCompile ==
    /\ latex_content \in TextsOver({"t"}, MaxText)
    /\ pdflatex_installed \in BOOLEAN
    /\ temp_dir = NoFiles
    /\ dir_exists = FALSE
    /\ pass = 0
    /\ runs = <<>>
    /\ result = None
    /\ fault = "none"
    /\ pdf_at_return = FALSE
    /\ log_at_return = None
    /\ kpc = "call"

IdleCompile ==
    /\ latex_content = <<>>
    /\ pdflatex_installed = TRUE
    /\ temp_dir = NoFiles
    /\ dir_exists = FALSE
    /\ pass = 0
    /\ runs = <<>>
    /\ result = None
    /\ fault = "none"
    /\ pdf_at_return = FALSE
    /\ log_at_return = None
    /\ kpc = "idle"

\* A plausible slip: only the file that was written is removed.
cleanup_own_file(d) == [m \in DOMAIN d \ {TEX} |-> d[m]]

\* TemporaryDirectory.__exit__ (line 41): what is left of the files of the
\* scratch directory when the with block is left
cleanup(d) == NoFiles

\* a return statement inside the with block: the tuple is returned and the
\* scratch directory is deleted with all it holds
Return(tuple, exception) ==
    /\ result' = tuple
    /\ fault' = exception
    /\ pdf_at_return' = exists(temp_dir, PDF)
    /\ log_at_return' = (IF exists(temp_dir, LOG) THEN temp_dir[LOG] ELSE None)
    /\ temp_dir' = cleanup(temp_dir)
    /\ dir_exists' = FALSE
    /\ kpc' = "done"

\* A plausible slip: one handler for every exception.
Handle_any(exception) == Return(<<FALSE, None, MSG_ERROR \o STR_OSERROR>>, exception)

\* lines 79-84: the three handlers
Handle(exception) ==
    IF exception = "TimeoutExpired" THEN Return(<<FALSE, None, MSG_TIMEOUT>>, exception)
    ELSE IF exception = "FileNotFoundError"
    THEN Return(<<FALSE, None, MSG_NOT_FOUND>>, exception)
    ELSE Return(<<FALSE, None, MSG_ERROR \o STR_OSERROR>>, exception)

\* line 41: the scratch directory is made
EnterTempDir ==
    /\ kpc = "call"
    /\ dir_exists' = TRUE
    /\ kpc' = "write"
    /\ UNCHANGED <<latex_content, pdflatex_installed, temp_dir, pass, runs, result,
                   fault, pdf_at_return, log_at_return, cleanVars, promptVars, parseVars, appVars, usersVars>>

\* lines 48-49: document.tex is written
WriteTex ==
    /\ kpc = "write"
    /\ temp_dir' = WithFile(temp_dir, TEX, latex_content)
    /\ kpc' = "run"
    /\ UNCHANGED <<latex_content, pdflatex_installed, dir_exists, pass, runs, result,
                   fault, pdf_at_return, log_at_return, cleanVars, promptVars, parseVars, appVars, usersVars>>

\* lines 48-49: the write fails
WriteTexFails ==
    /\ kpc = "write"
    /\ \E e \in {"OSError"} : Handle(e)
    /\ UNCHANGED <<latex_content, pdflatex_installed, pass, runs, cleanVars, promptVars, parseVars, appVars, usersVars>>

\* lines 53-58: pdflatex runs to its end within the timeout; it writes its
\* log or cannot, writes document.pdf or not, and exits with some code
RunReturns ==
    /\ kpc = "run"
    /\ pdflatex_installed
    /\ \E returncode \in {0, 1}, makes_pdf \in BOOLEAN, log \in Logs \cup {None} :
          /\ temp_dir' = LET d == IF log = None THEN temp_dir
                                  ELSE WithFile(temp_dir, LOG, log)
                         IN IF makes_pdf THEN WithFile(d, PDF, PdfOf(temp_dir[TEX])) ELSE d
          /\ runs' = Append(runs, Invocation("returned", returncode))
          /\ pass' = pass + 1
          /\ kpc' = after_run(pass, returncode)
    /\ UNCHANGED <<latex_content, pdflatex_installed, dir_exists, result, fault,
                   pdf_at_return, log_at_return, cleanVars, promptVars, parseVars, appVars, usersVars>>

\* lines 53-58: the run exceeds the timeout and is killed; it may have
\* written a part of document.pdf before
RunTimesOut ==
    /\ kpc = "run"
    /\ pdflatex_installed
    /\ \E partial_pdf \in BOOLEAN :
          LET d == IF partial_pdf THEN WithFile(temp_dir, PDF, <<"%PDF">>) ELSE temp_dir
          IN /\ result' = <<FALSE, None, MSG_TIMEOUT>>
             /\ fault' = "TimeoutExpired"
             /\ pdf_at_return' = exists(d, PDF)
             /\ log_at_return' = (IF exists(d, LOG) THEN d[LOG] ELSE None)
             /\ temp_dir' = cleanup(d)
    /\ runs' = Append(runs, Invocation("TimeoutExpired", None))
    /\ dir_exists' = FALSE
    /\ kpc' = "done"
    /\ UNCHANGED <<latex_content, pdflatex_installed, pass, cleanVars, promptVars, parseVars, appVars, usersVars>>

\* lines 53-58: no process starts: the binary is missing, or cannot be run
RunCannotStart ==
    /\ kpc = "run"
    /\ \E e \in {IF pdflatex_installed THEN "OSError" ELSE "FileNotFoundError"} :
          /\ Handle(e)
          /\ runs' = Append(runs, Invocation(e, None))
    /\ UNCHANGED <<latex_content, pdflatex_installed, pass, cleanVars, promptVars, parseVars, appVars, usersVars>>

\* lines 61-64: document.pdf is there and is read
ReadPdf ==
    /\ kpc = "check"
    /\ pdf_created(temp_dir, PDF)
    /\ \/ Return(<<TRUE, temp_dir[PDF], None>>, "none")
       \/ Handle("OSError")
    /\ UNCHANGED <<latex_content, pdflatex_installed, pass, runs, cleanVars, promptVars, parseVars, appVars, usersVars>>

\* lines 65-77: no document.pdf: the diagnostic is taken from the log
ReadLog ==
    /\ kpc = "check"
    /\ ~pdf_created(temp_dir, PDF)
    /\ \/ Return(<<FALSE, None,
                   IF exists(temp_dir, LOG) THEN error_from_log(decode(temp_dir[LOG]))
                   ELSE MSG_FAILED>>, "none")
       \/ exists(temp_dir, LOG) /\ Handle("OSError")
    /\ UNCHANGED <<latex_content, pdflatex_installed, pass, runs, cleanVars, promptVars, parseVars, appVars, usersVars>>

NextCompile ==
    \/ EnterTempDir
    \/ WriteTex
    \/ WriteTexFails
    \/ RunReturns
    \/ RunTimesOut
    \/ RunCannotStart
    \/ ReadPdf
    \/ ReadLog

(***************************************************************************)
(* parse_cv (cv_parser.py).  A file is <<name, size, extraction>>: the name *)
(* is a text, and extraction is what the extractor of the file's format    *)
(* gives when it is called on the file: a text, or an exception (a corrupt *)
(* or encrypted file, bytes that are not UTF-8).                           *)
(***************************************************************************)
\* s.split(sep) for a one-character sep
RECURSIVE split_on(_, _)
split_on(s, sep) ==
    IF find(s, sep) = -1 THEN <<s>>
    ELSE <<SubSeq(s, 1, find(s, sep))>> \o split_on(slice_from(s, find(s, sep) + 1), sep)

EXT_PDF == <<"p", "d", "f">>
EXT_DOCX == <<"d", "o", "c", "x">>
EXT_DOC == <<"d", "o", "c">>
EXT_TXT == <<"t", "x", "t">>

\* the three extractors (lines 39-66)
PARSE_PDF == <<"parse_pdf">>
PARSE_DOCX == <<"parse_docx">>
PARSE_TXT == <<"parse_txt">>

\* A plausible slip: the case of the extension is kept.
file_extension_as_written(name) == split_on(name, ".")[Len(split_on(name, "."))]

\* uploaded_file.name.split('.')[-1].lower(), line 23
file_extension(name) == lower(split_on(name, ".")[Len(split_on(name, "."))])

\* lines 25-32: the extractor that the extension selects, None for none
extractor_for(ext) ==
    IF ext = EXT_PDF THEN PARSE_PDF
    ELSE IF ext \in {EXT_DOCX, EXT_DOC} THEN PARSE_DOCX
    ELSE IF ext = EXT_TXT THEN PARSE_TXT
    ELSE None

\* parse_cv, lines 12-36: the text or None that it returns, or the exception
\* that it raises in place of the extractor's, and the extractors it called
parse_cv(file) ==
    LET extractor == extractor_for(file_extension(file[1]))
    IN IF extractor = None
       THEN [raised |-> FALSE, text |-> None, calls |-> <<>>]
       ELSE [raised |-> file[3] = RAISES, text |-> file[3], calls |-> <<extractor>>]

\* Bound: the number of dot-separated parts of a file name.
MaxParts == 2

\* the parts that file names are made of
Words == {EXT_PDF, <<"P", "d", "f">>, <<"D", "O", "C", "X">>, EXT_DOC, EXT_TXT,
          <<"c", "v">>, <<"d", "o", "c", "m">>, <<>>}

\* the names of at most n parts joined by dots
RECURSIVE NamesOf(_)
NamesOf(n) ==
    IF n = 1 THEN Words
    ELSE NamesOf(n - 1) \cup {stem \o <<".">> \o w : stem \in NamesOf(n - 1), w \in Words}

InitParse ==
    /\ cv_file \in {<<name, 1, extraction>> :
                       name \in NamesOf(MaxParts), extraction \in {<<"A">>, <<>>, RAISES}}
    /\ parse_out = None
    /\ xpc = "call"

IdleParse ==
    /\ cv_file = None
    /\ parse_out = None
    /\ xpc = "idle"

\* one call of parse_cv on the file
ParseCv ==
    /\ xpc = "call"
    /\ parse_out' = parse_cv(cv_file)
    /\ xpc' = "done"
    /\ UNCHANGED <<cv_file, cleanVars, promptVars, compileVars, appVars, usersVars>>

NextParse == ParseCv

(***************************************************************************)
(* The application (app.py).  Every user interaction makes Streamlit run   *)
(* the whole script again: setup_sidebar, then main_content, on the        *)
(* session state and the current values of the widgets.  One action is     *)
(* one interaction and the rerun it causes.  The completion service, the   *)
(* CV parser's libraries and the LaTeX compiler are the environment: what  *)
(* they give back is a choice of the action.  The front end is not         *)
(* trusted to send only interactions with widgets the last run drew: every *)
(* interaction can arrive in every state.  The template widgets of the     *)
(* sidebar and the job title field only feed the prompt and are left out.  *)
(***************************************************************************)
K1 == <<"k", "1">>
K2 == <<"k", "2">>

\* a key that st.session_state does not hold
ABSENT == <<"absent">>

\* A plausible slip: the key is not checked.
GeminiClient_unchecked(arg, env) ==
    LET key == IF Truthy(arg) THEN arg ELSE env
    IN [raised |-> FALSE, client |-> <<"GeminiClient", key>>, configured |-> key]

\* GeminiClient.__init__ (gemini_client.py lines 17-29): the client made of
\* an api_key argument with GEMINI_API_KEY = env, or the ValueError
GeminiClient(arg, env) ==
    LET key == IF Truthy(arg) THEN arg ELSE env
    IN IF ~Truthy(key)
       THEN [raised |-> TRUE, client |-> None, configured |-> None]
       ELSE [raised |-> FALSE, client |-> <<"GeminiClient", key>>, configured |-> key]

\* self.api_key
ApiKeyOf(client) == client[2]

\* self.model.generate_content(prompt) (lines 154, 205): one request, made
\* with the client's key while configured is the key genai holds
generate_content(client, configured, kind, reply) ==
    [calls |-> <<[kind |-> kind, api_key |-> ApiKeyOf(client), configured |-> configured]>>,
     raised |-> reply = RAISES,
     text |-> reply]

\* A plausible slip: a failed request is made a second time.
generate_with_retry(client, configured, kind, reply) ==
    LET first == generate_content(client, configured, kind, reply)
    IN [calls |-> IF first.raised THEN first.calls \o first.calls ELSE first.calls,
        raised |-> first.raised,
        value |-> IF first.raised THEN None ELSE clean_output(first.text)]

\* generate_cv_latex / generate_cover_letter from the request on (lines
\* 154-155, 205-206): the sanitized completion, or the exception of the
\* request, which is not caught here
generate(client, configured, kind, reply) ==
    LET response == generate_content(client, configured, kind, reply)
    IN [calls |-> response.calls,
        raised |-> response.raised,
        value |-> IF response.raised THEN None ELSE clean_output(response.text)]

\* the uploaded files: <<name, size, what the extractor gives>>: a CV, a
\* scan without text, a text file that is not UTF-8, and a file of a format
\* that parse_cv does not know
FILE_A == <<<<"c", "v", ".", "p", "d", "f">>, 1, <<"A">>>>
FILE_B == <<<<"s", ".", "p", "d", "f">>, 2, <<>>>>
FILE_C == <<<<"l", ".", "t", "x", "t">>, 3, RAISES>>
FILE_D == <<<<"n">>, 4, <<"A">>>>
Files == {FILE_A, FILE_B, FILE_C, FILE_D}

\* the raw completions of the service
Replies == {<<"d">>, FENCE \o <<NL, "d", NL>> \o FENCE}
\* what the user types into an editor
Edits == {<<"e">>}

\* f"{uploaded_file.name}_{uploaded_file.size}" (line 187)
file_identifier(file) == file[1] \o <<"_", file[2]>>

\* compile_latex_to_pdf, by whether the compilation succeeds
compile_latex_to_pdf(latex, ok) ==
    IF ok THEN <<TRUE, PdfOf(latex), None>> ELSE <<FALSE, None, MSG_FAILED>>

\* initialize_session_state (lines 63-72); last_parsed_file is read with
\* .get, which gives None for the absent key
NewSession ==
    [cv_text |-> None, generated_latex |-> None, generated_cover_letter |-> None,
     gemini_client |-> None, last_parsed_file |-> None, pdf_bytes |-> ABSENT]

\* setup_sidebar, lines 81-98
setup_sidebar(ss, key, env, genai) ==
    IF Truthy(key)
    THEN LET made == GeminiClient(key, env)
         IN IF made.raised
            THEN [ss |-> ss, genai |-> genai, shown |-> {"API Key error"}]
            ELSE [ss |-> [ss EXCEPT !.gemini_client = made.client],
                  genai |-> made.configured, shown |-> {"API Key configured"}]
    ELSE [ss |-> ss, genai |-> genai, shown |-> {"Please enter your Gemini API key"}]

\* A plausible slip: whatever parse_cv returns is kept.
upload_section_unchecked(ss, file) ==
    IF file # None
    THEN IF ss.last_parsed_file # file_identifier(file)
         THEN LET parsed == parse_cv(file)
              IN IF parsed.raised
                 THEN [ss |-> [ss EXCEPT !.cv_text = None],
                       shown |-> {"Error during CV parsing"}]
                 ELSE [ss |-> [ss EXCEPT !.cv_text = parsed.text,
                                         !.last_parsed_file = file_identifier(file)],
                       shown |-> {"CV parsed successfully"}]
         ELSE [ss |-> ss, shown |-> {}]
    ELSE [ss |-> [ss EXCEPT !.cv_text = None, !.last_parsed_file = None], shown |-> {}]

\* main_content, lines 185-209
upload_section(ss, file) ==
    IF file # None
    THEN IF ss.last_parsed_file # file_identifier(file)
         THEN LET parsed == parse_cv(file)
              IN IF parsed.raised
                 THEN [ss |-> [ss EXCEPT !.cv_text = None],
                       shown |-> {"Error during CV parsing"}]
                 ELSE IF Truthy(parsed.text) /\ Len(strip(parsed.text)) > 0
                 THEN [ss |-> [ss EXCEPT !.cv_text = parsed.text,
                                         !.last_parsed_file = file_identifier(file)],
                       shown |-> {"CV parsed successfully"}]
                 ELSE [ss |-> [ss EXCEPT !.cv_text = None],
                       shown |-> {"Failed to extract text from CV"}]
         ELSE [ss |-> ss, shown |-> {}]
    ELSE [ss |-> [ss EXCEPT !.cv_text = None, !.last_parsed_file = None], shown |-> {}]

\* A plausible slip: the company name is looked at before the job description.
missing_input_company_first(ss, jd, company) ==
    IF ~Truthy(ss.cv_text) THEN {"Please upload your CV first"}
    ELSE IF ~Truthy(company) THEN {"Please enter the company name"}
    ELSE IF ~Truthy(jd) THEN {"Please enter the job description"}
    ELSE {}

\* lines 278-283 and 321-326
missing_input(ss, jd, company) ==
    IF ~Truthy(ss.cv_text) THEN {"Please upload your CV first"}
    ELSE IF ~Truthy(jd) THEN {"Please enter the job description"}
    ELSE IF ~Truthy(company) THEN {"Please enter the company name"}
    ELSE {}

\* A plausible slip: the earlier results are replaced only by a new result.
generate_cv_section_keep(ss, jd, company, genai, reply) ==
    IF missing_input(ss, jd, company) # {}
    THEN [ss |-> ss, shown |-> missing_input(ss, jd, company), calls |-> <<>>]
    ELSE LET made == generate(ss.gemini_client, genai, "cv", reply)
         IN IF made.raised
            THEN [ss |-> ss, shown |-> {"Error generating CV"}, calls |-> made.calls]
            ELSE [ss |-> [ss EXCEPT !.generated_latex = made.value,
                                    !.pdf_bytes = IF @ = ABSENT THEN ABSENT ELSE None],
                  shown |-> {"CV generated successfully"}, calls |-> made.calls]

\* main_content, lines 277-317
generate_cv_section(ss, jd, company, genai, reply) ==
    IF missing_input(ss, jd, company) # {}
    THEN [ss |-> ss, shown |-> missing_input(ss, jd, company), calls |-> <<>>]
    ELSE LET cleared == [ss EXCEPT !.generated_latex = None,
                                   !.pdf_bytes = IF @ = ABSENT THEN ABSENT ELSE None]
             made == generate(ss.gemini_client, genai, "cv", reply)
         IN IF made.raised
            THEN [ss |-> cleared, shown |-> {"Error generating CV"}, calls |-> made.calls]
            ELSE [ss |-> [cleared EXCEPT !.generated_latex = made.value],
                  shown |-> {"CV generated successfully"}, calls |-> made.calls]

\* main_content, lines 320-354
generate_cl_section(ss, jd, company, genai, reply) ==
    IF missing_input(ss, jd, company) # {}
    THEN [ss |-> ss, shown |-> missing_input(ss, jd, company), calls |-> <<>>]
    ELSE LET cleared == [ss EXCEPT !.generated_cover_letter = None]
             made == generate(ss.gemini_client, genai, "cover_letter", reply)
         IN IF made.raised
            THEN [ss |-> cleared, shown |-> {"Error generating cover letter"},
                  calls |-> made.calls]
            ELSE [ss |-> [cleared EXCEPT !.generated_cover_letter = made.value],
                  shown |-> {"Cover letter generated successfully"}, calls |-> made.calls]

\* main_content, lines 357-407: the LaTeX editor and the compile button
cv_results_section(ss, button, edited, ok) ==
    IF Truthy(ss.generated_latex)
    THEN LET ed == IF button = "edit_latex" /\ edited # ss.generated_latex
                   THEN [ss EXCEPT !.generated_latex = edited] ELSE ss
             compiled == compile_latex_to_pdf(ed.generated_latex, ok)
         IN IF button = "compile"
            THEN IF compiled[1]
                 THEN [ss |-> [ed EXCEPT !.pdf_bytes = compiled[2]],
                       shown |-> {"PDF compiled successfully"}]
                 ELSE [ss |-> ed, shown |-> {"Compilation failed"}]
            ELSE [ss |-> ed, shown |-> {}]
    ELSE [ss |-> ss, shown |-> {}]

\* main_content, lines 410-427: the cover letter editor
cl_results_section(ss, button, edited) ==
    IF /\ Truthy(ss.generated_cover_letter)
       /\ button = "edit_cover_letter"
       /\ edited # ss.generated_cover_letter
    THEN [ss EXCEPT !.generated_cover_letter = edited]
    ELSE ss

\* main_content, lines 167-170: the early return without a client
NoCalls(ss) == [ss |-> ss, shown |-> {"Please configure your Gemini API key"},
                calls |-> <<>>]

\* the value of a one-element set: THE({e : x \in {d}}) is e with x the
\* value of d, computed once
THE(S) == CHOOSE v \in S : TRUE

\* main_content, lines 163-451: the sections in the order of the script, read
\* from the last line up: up is the upload section, cv and cl the two
\* generate buttons, res the LaTeX editor and the compile button
main_content(ss, file, company, jd, genai, button, edited, reply, ok) ==
    IF ss.gemini_client = None
    THEN NoCalls(ss)
    ELSE THE({ THE({ THE({ THE({
            [ss |-> cl_results_section(res.ss, button, edited),
             shown |-> up.shown \cup cv.shown \cup cl.shown \cup res.shown,
             calls |-> cv.calls \o cl.calls]
          : res \in {cv_results_section(cl.ss, button, edited, ok)} })
          : cl \in {IF button = "generate_cl"
                    THEN generate_cl_section(cv.ss, jd, company, genai, reply)
                    ELSE [ss |-> cv.ss, shown |-> {}, calls |-> <<>>]} })
          : cv \in {IF button = "generate_cv"
                    THEN generate_cv_section(up.ss, jd, company, genai, reply)
                    ELSE [ss |-> up.ss, shown |-> {}, calls |-> <<>>]} })
          : up \in {upload_section(ss, file)} })

\* main(), lines 454-479: one run of the script
script(ss, key, env, genai, file, company, jd, button, edited, reply, ok) ==
    THE({ THE({
        [ss |-> main.ss, genai |-> side.genai, shown |-> side.shown \cup main.shown,
         calls |-> main.calls]
      : main \in {main_content(side.ss, file, company, jd, side.genai,
                               button, edited, reply, ok)} })
      : side \in {setup_sidebar(ss, key, env, genai)} })

\* the first run of the script, when the page is opened: the key field
\* starts with os.getenv('GEMINI_API_KEY', '') (line 84)
FirstRun(env) ==
    script(NewSession, IF env = None THEN <<>> ELSE env, env, None,
           None, <<>>, <<>>, "none", None, None, FALSE)

InitApp ==
    /\ env_key \in {None, <<>>, K1}
    /\ api_key = (IF env_key = None THEN <<>> ELSE env_key)
    /\ uploaded_file = None
    /\ ui_company_name = <<>>
    /\ ui_job_description = <<>>
    /\ session = FirstRun(env_key).ss
    /\ genai_key = FirstRun(env_key).genai
    /\ requests = <<>>
    /\ shown = FirstRun(env_key).shown
    /\ event = <<"open", FALSE>>
    /\ direct = None

IdleApp ==
    /\ env_key = None
    /\ api_key = <<>>
    /\ uploaded_file = None
    /\ ui_company_name = <<>>
    /\ ui_job_description = <<>>
    /\ session = NewSession
    /\ genai_key = None
    /\ requests = <<>>
    /\ shown = {}
    /\ event = <<"idle", FALSE>>
    /\ direct = None

\* the rerun that an interaction causes, the widgets holding key, file,
\* company and jd
Rerun(key, file, company, jd, button, edited, reply, ok) ==
    \E run \in {script(session, key, env_key, genai_key, file, company, jd,
                       button, edited, reply, ok)} :
       /\ session' = run.ss
       /\ genai_key' = run.genai
       /\ requests' = run.calls
       /\ shown' = run.shown
       /\ event' = <<button, reply = RAISES>>
       /\ direct' = None
       /\ UNCHANGED <<env_key, cleanVars, promptVars, compileVars, parseVars, usersVars>>

\* the user changes the key field of the sidebar
EnterApiKey ==
    \E k \in {<<>>, K1, K2} :
        /\ k # api_key
        /\ api_key' = k
        /\ UNCHANGED <<uploaded_file, ui_company_name, ui_job_description>>
        /\ Rerun(k, uploaded_file, ui_company_name, ui_job_description,
                 "none", None, None, FALSE)

\* the user uploads, replaces or removes the CV file
ChangeFile ==
    \E f \in Files \cup {None} :
        /\ f # uploaded_file
        /\ uploaded_file' = f
        /\ UNCHANGED <<api_key, ui_company_name, ui_job_description>>
        /\ Rerun(api_key, f, ui_company_name, ui_job_description,
                 "none", None, None, FALSE)

\* the user changes the company name
EnterCompanyName ==
    \E c \in {<<>>, <<"c">>} :
        /\ c # ui_company_name
        /\ ui_company_name' = c
        /\ UNCHANGED <<api_key, uploaded_file, ui_job_description>>
        /\ Rerun(api_key, uploaded_file, c, ui_job_description,
                 "none", None, None, FALSE)

\* the user changes the job description
EnterJobDescription ==
    \E j \in {<<>>, <<"j">>} :
        /\ j # ui_job_description
        /\ ui_job_description' = j
        /\ UNCHANGED <<api_key, uploaded_file, ui_company_name>>
        /\ Rerun(api_key, uploaded_file, ui_company_name, j,
                 "none", None, None, FALSE)

\* "Generate Tailored CV" is clicked; the service replies or fails
ClickGenerateCV ==
    /\ \E reply \in Replies \cup {RAISES} :
          Rerun(api_key, uploaded_file, ui_company_name, ui_job_description,
                "generate_cv", None, reply, FALSE)
    /\ UNCHANGED widgetVars

\* "Generate Cover Letter" is clicked; the service replies or fails
ClickGenerateCoverLetter ==
    /\ \E reply \in Replies \cup {RAISES} :
          Rerun(api_key, uploaded_file, ui_company_name, ui_job_description,
                "generate_cl", None, reply, FALSE)
    /\ UNCHANGED widgetVars

\* the user edits the LaTeX code
EditLatex ==
    /\ \E t \in Edits :
          Rerun(api_key, uploaded_file, ui_company_name, ui_job_description,
                "edit_latex", t, None, FALSE)
    /\ UNCHANGED widgetVars

\* the user edits the cover letter
EditCoverLetter ==
    /\ \E t \in Edits :
          Rerun(api_key, uploaded_file, ui_company_name, ui_job_description,
                "edit_cover_letter", t, None, FALSE)
    /\ UNCHANGED widgetVars

\* "Compile to PDF" is clicked; the compilation succeeds or fails
ClickCompile ==
    /\ \E ok \in BOOLEAN :
          Rerun(api_key, uploaded_file, ui_company_name, ui_job_description,
                "compile", None, None, ok)
    /\ UNCHANGED widgetVars

\* a GeminiClient is constructed outside the session, with some api_key
\* argument, while the session holds no client: direct records the argument
\* and the outcome until the next rerun
ConstructDirect ==
    /\ session.gemini_client = None
    /\ direct = None
    /\ \E arg \in {None, <<>>, K2} :
          LET made == GeminiClient(arg, env_key)
          IN /\ direct' = <<arg, made.raised, made.client>>
             /\ genai_key' = IF made.raised THEN genai_key ELSE made.configured
    /\ UNCHANGED <<env_key, session, widgetVars, requests, shown, event,
                   cleanVars, promptVars, compileVars, parseVars, usersVars>>

Next ==
    \/ EnterApiKey
    \/ ChangeFile
    \/ EnterCompanyName
    \/ EnterJobDescription
    \/ ClickGenerateCV
    \/ ClickGenerateCoverLetter
    \/ EditLatex
    \/ EditCoverLetter
    \/ ClickCompile
    \/ ConstructDirect

(***************************************************************************)
(* Two users of one server process.  Each session runs the script in a     *)
(* thread of its own, so the statements of two reruns interleave; the      *)
(* google.generativeai module is loaded once, and genai_key, the key that  *)
(* genai.configure stores in it, is the same for both.  A step is one      *)
(* statement of GeminiClient.__init__ or one request.  GenerativeModel is  *)
(* constructed without a key: whether it takes the configured key when it  *)
(* is constructed or when it makes its first request is the library's      *)
(* matter, and both are allowed.                                           *)
(***************************************************************************)
Users == {"u1", "u2"}

\* the key that each user types into the sidebar
KeyOf(u) == IF u = "u1" THEN K1 ELSE K2

\* Bound: the number of requests made by the two users together.
MaxSent == 2

\* the GeminiClient object while __init__ runs and after: self.api_key, and
\* the key that self.model holds (None: no model yet, or a model that has
\* not yet taken a key)
ClientObject(key, bound) == [api_key |-> key, bound |-> bound]

\* no GeminiClient object
NO_CLIENT == ClientObject(None, None)

InitUsers ==
    /\ users = [u \in Users |-> [pc |-> "idle", client |-> NO_CLIENT, new |-> NO_CLIENT]]
    /\ sent = <<>>

IdleUsers ==
    /\ users = [u \in Users |-> [pc |-> "off", client |-> NO_CLIENT, new |-> NO_CLIENT]]
    /\ sent = <<>>

UnchangedByUsers ==
    UNCHANGED <<env_key, session, widgetVars, requests, shown, event, direct,
                cleanVars, promptVars, compileVars, parseVars>>

\* setup_sidebar line 92 calls GeminiClient(api_key); __init__ line 24:
\* self.api_key = api_key or os.getenv('GEMINI_API_KEY')
SetApiKey(u) ==
    /\ users[u].pc = "idle"
    /\ users' = [users EXCEPT ![u].pc = "configure",
                              ![u].new = ClientObject(KeyOf(u), None)]
    /\ UNCHANGED <<genai_key, sent>>
    /\ UnchangedByUsers

\* setup_sidebar lines 90-98 with the key field emptied: no client is
\* constructed and the one of the session stays
RerunWithoutKey(u) ==
    /\ users[u].pc = "idle"
    /\ users[u].client # NO_CLIENT
    /\ users' = [users EXCEPT ![u].pc = "main"]
    /\ UNCHANGED <<genai_key, sent>>
    /\ UnchangedByUsers

\* __init__ line 28: genai.configure(api_key=self.api_key)
Configure(u) ==
    /\ users[u].pc = "configure"
    /\ genai_key' = users[u].new.api_key
    /\ users' = [users EXCEPT ![u].pc = "model"]
    /\ UNCHANGED sent
    /\ UnchangedByUsers

\* __init__ line 29: self.model = genai.GenerativeModel('gemini-2.5-flash'),
\* and line 92: the client is stored in the session
MakeModel(u) ==
    /\ users[u].pc = "model"
    /\ \E bound \in {genai_key, None} :
          users' = [users EXCEPT ![u].pc = "main",
                                ![u].client = ClientObject(users[u].new.api_key, bound),
                                ![u].new = NO_CLIENT]
    /\ UNCHANGED <<genai_key, sent>>
    /\ UnchangedByUsers

\* the key a request of the client's model is made with (lines 154, 205):
\* the key the model holds, the configured one when it holds none yet
key_of_request(client, configured) ==
    IF client.bound # None THEN client.bound ELSE configured

\* main_content: a generate button was clicked, and the request is made
\* (lines 154, 205); the model keeps the key it used
SendRequest(u) ==
    /\ users[u].pc = "main"
    /\ Len(sent) < MaxSent
    /\ LET used == key_of_request(users[u].client, genai_key)
       IN /\ sent' = Append(sent, [user |-> u, api_key |-> users[u].client.api_key,
                                   used |-> used])
          /\ users' = [users EXCEPT ![u].pc = "idle", ![u].client.bound = used]
    /\ UNCHANGED genai_key
    /\ UnchangedByUsers

\* the rerun ends without a request
EndRerun(u) ==
    /\ users[u].pc = "main"
    /\ users' = [users EXCEPT ![u].pc = "idle"]
    /\ UNCHANGED <<genai_key, sent>>
    /\ UnchangedByUsers

NextUsers ==
    \E u \in Users :
        \/ SetApiKey(u)
        \/ RerunWithoutKey(u)
        \/ Configure(u)
        \/ MakeModel(u)
        \/ SendRequest(u)
        \/ EndRerun(u)

(***************************************************************************)
(* The specifications: each runs one component and leaves the others idle. *)
(***************************************************************************)
CleanInit == InitClean /\ IdlePrompt /\ IdleCompile /\ IdleParse /\ IdleApp /\ IdleUsers
SpecClean == CleanInit /\ [][NextClean]_vars

PromptInit == InitPrompt /\ IdleClean /\ IdleCompile /\ IdleParse /\ IdleApp /\ IdleUsers
SpecPrompt == PromptInit /\ [][NextPrompt]_vars

CompileInit == InitCompile /\ IdleClean /\ IdlePrompt /\ IdleParse /\ IdleApp /\ IdleUsers

ParseInit == InitParse /\ IdleClean /\ IdlePrompt /\ IdleCompile /\ IdleApp /\ IdleUsers
SpecParse == ParseInit /\ [][NextParse]_vars
SpecCompile == CompileInit /\ [][NextCompile]_vars

Init == InitApp /\ IdleClean /\ IdlePrompt /\ IdleCompile /\ IdleParse /\ IdleUsers
Spec == Init /\ [][Next]_vars

UsersInit == InitUsers /\ IdleClean /\ IdlePrompt /\ IdleCompile /\ IdleParse /\ IdleApp
SpecUsers == UsersInit /\ [][NextUsers]_vars

(***************************************************************************)
(* Vocabulary of the sanitizer claims.                                     *)
(***************************************************************************)
HasFence(s) == \E i \in 1..(Len(s) - 2) : SubSeq(s, i, i + 2) = FENCE
AllSpace(s) == \A i \in 1..Len(s) : IsSpace(s[i])
Trimmed(s) == s = <<>> \/ (~IsSpace(s[1]) /\ ~IsSpace(s[Len(s)]))
NoBackticks(s) == SelectSeq(s, LAMBDA c : c # BT)

\* 1-based position of the first line break of s, 0 when there is none
FirstBreak(s) == find(s, NL) + 1

\* the trimmed text opens with a fence that no line break follows
FenceWithoutBreak(s) == startswith(strip(s), FENCE) /\ FirstBreak(strip(s)) = 0

\* x is FENCE tag NL body NL FENCE, the tag holding no line break
IsWrapped(x) ==
    /\ startswith(x, FENCE)
    /\ FirstBreak(x) > 0
    /\ Len(x) >= FirstBreak(x) + 4
    /\ endswith(x, <<NL>> \o FENCE)
WrappedBody(x) == SubSeq(x, FirstBreak(x) + 1, Len(x) - 4)

\* c is a contiguous piece t[i+1..j] of t; what precedes it is whitespace or
\* the fence line (through the first line break) and whitespace; what follows
\* it is whitespace, or whitespace and one closing fence.
OnlyFenceLineAndClosingFenceRemoved(t, c) ==
    \E i \in 0..Len(t) : \E j \in i..Len(t) :
        /\ SubSeq(t, i + 1, j) = c
        /\ \/ AllSpace(SubSeq(t, 1, i))
           \/ /\ startswith(t, FENCE)
              /\ FirstBreak(t) > 0
              /\ i >= FirstBreak(t)
              /\ AllSpace(SubSeq(t, FirstBreak(t), i))
        /\ \/ AllSpace(SubSeq(t, j + 1, Len(t)))
           \/ /\ endswith(t, FENCE)
              /\ j <= Len(t) - 3
              /\ AllSpace(SubSeq(t, j + 1, Len(t) - 3))

\* C1: the sanitizer is idempotent: clean(clean(x)) = clean(x) for every text x.
C1_CleanIdempotent == cpc = "twice" => recleaned = cleaned

\* C2 as stated: a text that holds no fence marker is returned as it is.
C2_NoFenceUnchanged == (cpc # "raw" /\ ~HasFence(text)) => cleaned = text

\* C2 as amended: a text that holds no fence marker is returned with its
\* surrounding whitespace trimmed and nothing else changed, so it is returned
\* as it is when it neither starts nor ends with whitespace.
C2_NoFenceOnlyTrimmed ==
    (cpc # "raw" /\ ~HasFence(text)) =>
        /\ cleaned = strip(text)
        /\ Trimmed(cleaned)
        /\ OnlyFenceLineAndClosingFenceRemoved(text, cleaned)
        /\ Trimmed(text) => cleaned = text

\* C2 witness: a fence-free text with surrounding whitespace has been cleaned
\* to a non-empty text.
C2_Witness ==
    /\ cpc = "once"
    /\ ~HasFence(text)
    /\ ~Trimmed(text)
    /\ cleaned # <<>>
    /\ cleaned # text

\* C3 as stated: for every input the result is the trimmed input less at most
\* a leading fence line and at most one closing fence (fence markers inside
\* are kept), and a wrapped BODY comes back as BODY.
C3_OnlyFenceLineAndClosingFence ==
    cpc # "raw" =>
        /\ OnlyFenceLineAndClosingFenceRemoved(strip(text), cleaned)
        /\ IsWrapped(text) => cleaned = WrappedBody(text)

\* C3 as amended: unless the trimmed input opens with a fence and holds no
\* line break, the result is a trimmed contiguous piece of the trimmed input,
\* less at most a leading fence line and at most one closing fence and the
\* whitespace next to them; when it opens with a fence and holds no line
\* break, every fence marker is deleted and all other non-backtick text is
\* kept; a wrapped BODY comes back as BODY trimmed.
C3_CleanRemovesFenceLineAndClosingFence ==
    cpc # "raw" =>
        /\ Trimmed(cleaned)
        /\ ~FenceWithoutBreak(text) =>
               OnlyFenceLineAndClosingFenceRemoved(strip(text), cleaned)
        /\ FenceWithoutBreak(text) =>
               /\ ~HasFence(cleaned)
               /\ strip(NoBackticks(cleaned)) = strip(NoBackticks(text))
        /\ IsWrapped(text) => cleaned = strip(WrappedBody(text))

\* C3 witness: a wrapped body that itself holds a fence marker has been
\* cleaned, and the marker inside is still there.
C3_Witness ==
    /\ cpc = "once"
    /\ IsWrapped(text)
    /\ HasFence(WrappedBody(text))
    /\ HasFence(cleaned)

(***************************************************************************)
(* Vocabulary of the prompt claims.                                        *)
(***************************************************************************)
\* a and b are the same letter, whatever their case
SameLetter(a, b) ==
    \/ a = b
    \/ \E i \in 1..26 : {a, b} = {UPPER[i], LOWER[i]}

\* word occurs in mode, compared letter by letter without regard to case
Mentions(word, mode) ==
    \E i \in 1..(Len(mode) - Len(word) + 1) :
        \A k \in 1..Len(word) : SameLetter(mode[i + k - 1], word[k])

Count(s, e) == Cardinality({i \in 1..Len(s) : s[i] = e})

\* the parts occur in s one after the other, none overlapping another,
\* from position start on
RECURSIVE FitsFrom(_, _, _)
FitsFrom(parts, s, start) ==
    \/ parts = <<>>
    \/ \E i \in start..(Len(s) - Len(Head(parts)) + 1) :
           /\ SubSeq(s, i, i + Len(Head(parts)) - 1) = Head(parts)
           /\ FitsFrom(Tail(parts), s, i + Len(Head(parts)))

\* s without the template section (its heading and the n elements after it)
WithoutTemplateSection(s, n) ==
    LET at == CHOOSE i \in 1..Len(s) : s[i] = USE_TEMPLATE
    IN SubSeq(s, 1, at - 1) \o SubSeq(s, at + n + 1, Len(s))

ExpectedBlock(mode) ==
    IF Mentions(KEY_CONSERVATIVE, mode) THEN BLOCK_CONSERVATIVE
    ELSE IF Mentions(KEY_AGGRESSIVE, mode) THEN BLOCK_AGGRESSIVE
    ELSE BLOCK_BALANCED

\* C4: the rendered prompt holds exactly one directive block: the conservative
\* one if the mode mentions "conservative" in any letter case, else the
\* aggressive one if it mentions "aggressive", else (every other string) the
\* balanced one; and it states the requested language as the output language.
C4_OneModeBlockSelected ==
    ppc = "rendered" =>
        /\ Count(prompt, ExpectedBlock(enhancement_mode)) = 1
        /\ \A b \in Blocks \ {ExpectedBlock(enhancement_mode)} : Count(prompt, b) = 0
        /\ contains(<<HDR_OUTPUT_LANGUAGE>> \o language, prompt)

\* C4 witness: a mode that mentions both keywords, in mixed case, has been
\* rendered with the conservative block.
C4_Witness ==
    /\ ppc = "rendered"
    /\ enhancement_mode = MODE_BOTH
    /\ language = ENGLISH
    /\ Count(prompt, BLOCK_CONSERVATIVE) = 1

\* C5: the prompt holds, unmodified and in this order, the role preamble, the
\* original CV text, the job description, the company name, the output
\* language, the selected directive block, the template text and the closing
\* constraints; without a template (None or empty) the template section is
\* absent and the rest of the prompt is what it is with a template.
C5_PromptPartsInOrder ==
    ppc = "rendered" =>
        /\ FitsFrom(<< <<ROLE_PREAMBLE>>,
                       <<HDR_ORIGINAL_CV>> \o original_cv,
                       <<HDR_JOB_DESCRIPTION>> \o job_description,
                       <<HDR_COMPANY_NAME>> \o company_name,
                       <<HDR_OUTPUT_LANGUAGE>> \o language,
                       <<ExpectedBlock(enhancement_mode)>>,
                       IF Truthy(latex_template)
                       THEN <<USE_TEMPLATE>> \o latex_template ELSE <<>>,
                       <<CRITICAL_FONTS, CRITICAL_RAW_ONLY, START_END>> >>,
                    prompt, 1)
        /\ prompt[Len(prompt)] = START_END
        /\ Count(prompt, HDR_ORIGINAL_CV) = 1 /\ Count(prompt, HDR_JOB_DESCRIPTION) = 1
        /\ ~Truthy(latex_template) =>
               /\ Count(prompt, USE_TEMPLATE) = 0
               /\ \A t \in TextsOver({"y"}, MaxText) \ {<<>>} :
                      prompt = WithoutTemplateSection(
                                   cv_prompt(original_cv, job_description, company_name,
                                             t, enhancement_mode, language), Len(t))

\* C5 witness: a prompt has been rendered from a CV text and a different job
\* description with an empty template, and it holds no template section.
C5_Witness ==
    /\ ppc = "rendered"
    /\ original_cv = <<"x", "y">>
    /\ job_description = <<"y">>
    /\ company_name = <<"x">>
    /\ latex_template = <<>>
    /\ Count(prompt, USE_TEMPLATE) = 0

(***************************************************************************)
(* Vocabulary of the application claims.                                   *)
(***************************************************************************)
\* the last rerun was caused by a click on one of the generate buttons
GenerateClicked == event[1] \in {"generate_cv", "generate_cl"}

\* the kind of request that a generate button makes
KindOf(button) == IF button = "generate_cv" THEN "cv" ELSE "cover_letter"

\* the last rerun reached the call of generate_cv_latex or of
\* generate_cover_letter: a client, a CV text, a job description and a
\* company name were there
GenerateCalled ==
    /\ GenerateClicked
    /\ session.gemini_client # None
    /\ Truthy(session.cv_text)
    /\ Truthy(ui_job_description)
    /\ Truthy(ui_company_name)

\* C6: no request is made to the completion service without a configured
\* credential: a GeminiClient constructed when neither the api_key argument
\* nor GEMINI_API_KEY is non-empty raises and gives no client, every client
\* holds a non-empty key, every request is made with a non-empty key while a
\* non-empty key is configured, and a rerun of a session whose gemini_client
\* is None makes no request.
C6_NoRequestWithoutCredential ==
    /\ direct # None =>
          /\ (~Truthy(direct[1]) /\ ~Truthy(env_key)) => (direct[2] /\ direct[3] = None)
          /\ direct[2] => direct[3] = None
          /\ direct[3] # None => Truthy(ApiKeyOf(direct[3]))
    /\ session.gemini_client # None => Truthy(ApiKeyOf(session.gemini_client))
    /\ session.gemini_client = None => requests = <<>>
    /\ \A i \in 1..Len(requests) :
          /\ Truthy(requests[i].api_key)
          /\ Truthy(requests[i].configured)

\* C6 witness: a generate button was clicked in a session without a client,
\* no request was made, and the construction of a client with neither an
\* argument nor an environment key has raised.
C6_Witness ==
    /\ GenerateClicked
    /\ session.gemini_client = None
    /\ requests = <<>>
    /\ direct # None
    /\ ~Truthy(direct[1])
    /\ ~Truthy(env_key)
    /\ direct[2]

\* C7: a rerun makes a request exactly when it calls generate_cv_latex or
\* generate_cover_letter, and then makes exactly one, of that kind, whether
\* or not the same inputs were sent before; when the request fails no second
\* one follows, the failure is reported in that rerun and the result that the
\* call was to give is left None (with no compiled PDF of an earlier CV).
C7_OneRequestPerCall ==
    /\ GenerateCalled =>
          /\ Len(requests) = 1
          /\ requests[1].kind = KindOf(event[1])
    /\ ~GenerateCalled => requests = <<>>
    /\ (GenerateCalled /\ event[2] /\ event[1] = "generate_cv") =>
          /\ session.generated_latex = None
          /\ session.pdf_bytes \in {None, ABSENT}
          /\ "Error generating CV" \in shown
          /\ "CV generated successfully" \notin shown
    /\ (GenerateCalled /\ event[2] /\ event[1] = "generate_cl") =>
          /\ session.generated_cover_letter = None
          /\ "Error generating cover letter" \in shown
          /\ "Cover letter generated successfully" \notin shown

\* C7 witness: a CV had been generated and compiled; the next click on
\* "Generate Tailored CV" met a failure of the service, after one request,
\* and left neither LaTeX code nor PDF.
C7_Witness ==
    /\ GenerateCalled
    /\ event = <<"generate_cv", TRUE>>
    /\ Len(requests) = 1
    /\ session.generated_latex = None
    /\ session.pdf_bytes = None
    /\ "Error generating CV" \in shown

(***************************************************************************)
(* Vocabulary of the compiler claims.                                      *)
(***************************************************************************)
Returned(run) == run.outcome = "returned"
Success(tuple) == tuple[1]
PdfBytes(tuple) == tuple[2]
ErrorMessage(tuple) == tuple[3]

\* C8: the compiler is run on the same source file with a 30-second timeout
\* each time; once the first run has returned, whatever its exit code, the
\* second run is made; the result is looked up only after two runs, and no
\* call makes more than two.
C8_TwoRunsWhateverExitCode ==
    /\ Len(runs) <= 2
    /\ \A i \in 1..Len(runs) : runs[i].timeout = 30 /\ runs[i].source = TEX
    /\ kpc \in {"run", "check"} => temp_dir[TEX] = latex_content
    /\ (kpc = "run" /\ runs # <<>>) => Len(runs) = 1 /\ Returned(runs[1])
    /\ kpc = "check" => Len(runs) = 2 /\ Returned(runs[1]) /\ Returned(runs[2])
    /\ (kpc = "done" /\ runs # <<>> /\ Returned(runs[1])) => Len(runs) = 2

\* C8 witness: a call is over whose first run exited with a non-zero code
\* and whose second run was made and returned.
C8_Witness ==
    /\ kpc = "done"
    /\ Len(runs) = 2
    /\ Returned(runs[1]) /\ runs[1].returncode = 1
    /\ Returned(runs[2])

\* C9 as stated: success is true exactly when document.pdf exists in the
\* scratch directory when the call returns.
C9_SuccessIffPdfExists ==
    kpc = "done" => (Success(result) <=> pdf_at_return)

\* C9 as amended: success is true exactly when both runs returned (neither
\* timed out nor failed to start), document.pdf exists after them and is read
\* without a fault, whatever the exit codes; success is never true without
\* the file.
C9_SuccessIffPdfExistsAndNoFault ==
    kpc = "done" =>
        /\ Success(result) <=> (pdf_at_return /\ fault = "none")
        /\ Success(result) => Len(runs) = 2 /\ Returned(runs[1]) /\ Returned(runs[2])
        /\ (fault = "none" /\ Len(runs) = 2) => (Success(result) <=> pdf_at_return)

\* C9 witness: a call has returned success although both runs exited with a
\* non-zero code.
C9_Witness ==
    /\ kpc = "done"
    /\ Success(result)
    /\ pdf_at_return
    /\ Len(runs) = 2
    /\ runs[1].returncode = 1
    /\ runs[2].returncode = 1

\* C10: every returned tuple has exactly one of pdf_bytes and error_message:
\* success with the bytes and no message, or failure with no bytes and a
\* non-empty message.
C10_ExactlyOneOfBytesAndMessage ==
    kpc = "done" =>
        \/ /\ Success(result)
           /\ PdfBytes(result) # None
           /\ ErrorMessage(result) = None
        \/ /\ ~Success(result)
           /\ PdfBytes(result) = None
           /\ ErrorMessage(result) # None
           /\ Len(ErrorMessage(result)) > 0

\* C10 witness: a call has returned a failure whose message is a line of the
\* log, no exception having been raised.
C10_Witness ==
    /\ kpc = "done"
    /\ ~Success(result)
    /\ fault = "none"
    /\ ErrorMessage(result) = <<"!">>

\* both invocations of the compiler ran to their end
BothRunsCompleted ==
    /\ Len(runs) = PASSES
    /\ \A i \in 1..Len(runs) : Returned(runs[i])

\* the positions of t where a line starts
LineStarts(t) == {i \in 1..Len(t) : i = 1 \/ t[i - 1] = NL}

\* the line of t that starts at position i, without its line break
LineAt(t, i) ==
    LET breaks == {j \in i..Len(t) : t[j] = NL}
    IN SubSeq(t, i, IF breaks = {} THEN Len(t)
                    ELSE (CHOOSE j \in breaks : \A k \in breaks : j <= k) - 1)

\* the positions of t where a line starts with the error marker
MarkedLines(t) == {i \in LineStarts(t) : t[i] = "!"}

\* the first line of t that begins with the error marker, the generic
\* message when there is none
FirstMarkedLine(t) ==
    IF MarkedLines(t) = {} THEN MSG_FAILED
    ELSE LineAt(t, CHOOSE i \in MarkedLines(t) : \A k \in MarkedLines(t) : i <= k)

\* t without the bytes that are not valid UTF-8
ValidBytes(t) == SelectSeq(t, LAMBDA b : b # BAD)

TimedOut == \E i \in 1..Len(runs) : runs[i].outcome = "TimeoutExpired"

\* an invocation found no compiler binary
CompilerNotFound ==
    /\ ~pdflatex_installed
    /\ \E i \in 1..Len(runs) : runs[i].outcome = "FileNotFoundError"

\* both invocations completed and left no PDF
CompiledWithoutPdf == BothRunsCompleted /\ ~pdf_at_return

\* a compilation-error diagnostic: a line that begins with the error marker,
\* or the generic message
IsDiagnostic(msg) == msg = MSG_FAILED \/ (msg # <<>> /\ msg[1] = "!")

\* the three messages differ, and each is returned only for its own cause
EachMessageOnlyForItsCause ==
    /\ MSG_TIMEOUT # MSG_NOT_FOUND
    /\ ~IsDiagnostic(MSG_TIMEOUT)
    /\ ~IsDiagnostic(MSG_NOT_FOUND)
    /\ ErrorMessage(result) = MSG_TIMEOUT => TimedOut
    /\ ErrorMessage(result) = MSG_NOT_FOUND => CompilerNotFound
    /\ IsDiagnostic(ErrorMessage(result)) => CompiledWithoutPdf

\* C12 as stated: three failure kinds are told apart by message, and a tuple
\* is returned for each: a timeout of either invocation gives the timeout
\* message, a missing compiler binary the not-found message, a completed
\* compilation without a PDF the compilation-error diagnostic; the messages
\* are pairwise distinct and each is returned only for its own cause.
C12_ThreeFailureKinds ==
    kpc = "done" =>
        /\ TimedOut => (~Success(result) /\ ErrorMessage(result) = MSG_TIMEOUT)
        /\ CompilerNotFound => (~Success(result) /\ ErrorMessage(result) = MSG_NOT_FOUND)
        /\ CompiledWithoutPdf => (~Success(result) /\ IsDiagnostic(ErrorMessage(result)))
        /\ EachMessageOnlyForItsCause

\* C12 as amended: as stated, except that a completed compilation without a
\* PDF gives the compilation-error diagnostic only when document.log is
\* absent or is opened without a fault; when opening it raises, a fourth
\* message, "Compilation error: " and the text of the exception, is
\* returned, as for every fault other than a timeout and a missing binary.
C12_ThreeFailureKindsAndOtherFaults ==
    kpc = "done" =>
        /\ TimedOut => (~Success(result) /\ ErrorMessage(result) = MSG_TIMEOUT)
        /\ CompilerNotFound => (~Success(result) /\ ErrorMessage(result) = MSG_NOT_FOUND)
        /\ CompiledWithoutPdf =>
              /\ ~Success(result)
              /\ IF fault = "none" THEN IsDiagnostic(ErrorMessage(result))
                 ELSE ErrorMessage(result) = MSG_ERROR \o STR_OSERROR
        /\ EachMessageOnlyForItsCause
        /\ (fault \notin {"none", "TimeoutExpired", "FileNotFoundError"}) =>
              (~Success(result) /\ ErrorMessage(result) = MSG_ERROR \o STR_OSERROR)
        /\ ~IsDiagnostic(MSG_ERROR \o STR_OSERROR)
        /\ MSG_ERROR \o STR_OSERROR \notin {MSG_TIMEOUT, MSG_NOT_FOUND}

\* C12 witness: the first invocation completed and wrote a log with a marked
\* line, the second one timed out, and the timeout message was returned.
C12_Witness ==
    /\ kpc = "done"
    /\ Len(runs) = 2
    /\ Returned(runs[1])
    /\ runs[2].outcome = "TimeoutExpired"
    /\ log_at_return = <<"!">>
    /\ result = <<FALSE, None, MSG_TIMEOUT>>

\* C13: after compile_latex_to_pdf returned, on every exit path, the scratch
\* directory and every file in it (document.tex, document.pdf, document.log)
\* no longer exist; the directory exists only while the call is under way.
C13_NoScratchFilesAfterReturn ==
    /\ kpc = "done" =>
          /\ ~dir_exists
          /\ DOMAIN temp_dir = {}
          /\ \A n \in {TEX, PDF, LOG} : ~exists(temp_dir, n)
    /\ dir_exists => kpc \in {"write", "run", "check"}
    /\ DOMAIN temp_dir # {} => dir_exists

\* C13 witness: the call returned after the second invocation timed out, when
\* the directory held document.pdf and document.log of the first one, and
\* nothing is left.
C13_Witness ==
    /\ kpc = "done"
    /\ fault = "TimeoutExpired"
    /\ Len(runs) = 2
    /\ pdf_at_return
    /\ log_at_return \notin {None, <<>>}
    /\ ~dir_exists
    /\ temp_dir = NoFiles

(***************************************************************************)
(* Vocabulary of the parse_cv claims.                                      *)
(***************************************************************************)
\* the positions of the dots of a name
Dots(name) == {i \in 1..Len(name) : name[i] = "."}

\* the extension of a name: what follows its last dot, None when the name
\* has no dot
Extension(name) ==
    IF Dots(name) = {} THEN None
    ELSE SubSeq(name, (CHOOSE i \in Dots(name) : \A k \in Dots(name) : k <= i) + 1,
                Len(name))

\* what follows the last dot of a name, the whole name when it has no dot
LastPart(name) == IF Dots(name) = {} THEN name ELSE Extension(name)

\* e is the extension x written in any case
IsExt(e, x) == e # None /\ Len(e) = Len(x) /\ \A i \in 1..Len(x) : SameLetter(e[i], x[i])

\* parse_cv on a name whose dispatching part is e: pdf goes to the PDF
\* extractor, docx and doc to the DOCX extractor, txt to the text extractor,
\* every other part gives None, no extractor called, nothing raised
DispatchedOn(e) ==
    /\ IsExt(e, EXT_PDF) => parse_out.calls = <<PARSE_PDF>>
    /\ (IsExt(e, EXT_DOCX) \/ IsExt(e, EXT_DOC)) => parse_out.calls = <<PARSE_DOCX>>
    /\ IsExt(e, EXT_TXT) => parse_out.calls = <<PARSE_TXT>>
    /\ (\A x \in {EXT_PDF, EXT_DOCX, EXT_DOC, EXT_TXT} : ~IsExt(e, x)) =>
          parse_out = [raised |-> FALSE, text |-> None, calls |-> <<>>]

ExtractedText(file) ==
    LET out == parse_cv(file)
    IN IF out.raised \/ out.text = None \/ AllSpace(out.text) THEN None ELSE out.text

\* the messages of the upload section for a file without text
ExtractionErrors == {"Error during CV parsing", "Failed to extract text from CV"}

\* C15: in every session state cv_text is None or a non-empty, non-blank
\* text extracted from a file; a rerun with a client and an uploaded file
\* whose extraction raises, returns None or returns an empty text reports an
\* error and leaves cv_text None; and a rerun that ends with cv_text None
\* makes no request to the completion service.
C15_CvTextNoneOrExtractedText ==
    /\ \/ session.cv_text = None
       \/ /\ session.cv_text # <<>>
          /\ ~AllSpace(session.cv_text)
          /\ \E f \in Files : session.cv_text = ExtractedText(f)
    /\ (/\ session.gemini_client # None
        /\ uploaded_file # None
        /\ ExtractedText(uploaded_file) = None) =>
          /\ session.cv_text = None
          /\ shown \cap ExtractionErrors # {}
          /\ parse_cv(uploaded_file).raised <=> "Error during CV parsing" \in shown
          /\ "CV parsed successfully" \notin shown
    /\ session.cv_text = None => requests = <<>>

\* C15 witness: "Generate Tailored CV" was clicked with a job description, a
\* company name and an uploaded file of which the extraction raises: the
\* fault was reported, cv_text is None and no request was made.
C15_Witness ==
    /\ event[1] = "generate_cv"
    /\ session.gemini_client # None
    /\ uploaded_file = FILE_C
    /\ Truthy(ui_job_description)
    /\ Truthy(ui_company_name)
    /\ session.cv_text = None
    /\ "Error during CV parsing" \in shown
    /\ "Please upload your CV first" \in shown
    /\ requests = <<>>

\* the three errors of the input validation
MissingInputErrors == {"Please upload your CV first", "Please enter the job description",
                       "Please enter the company name"}

\* the error for the first input that is absent, in the order CV text, job
\* description, company name; the empty set when all are present
FirstMissing(cv, jd, company) ==
    IF cv \in {None, <<>>} THEN {"Please upload your CV first"}
    ELSE IF jd = <<>> THEN {"Please enter the job description"}
    ELSE IF company = <<>> THEN {"Please enter the company name"}
    ELSE {}

\* a step is a rerun of a session with a client, caused by a click on one of
\* the two generate buttons
GenerateStep ==
    /\ event'[1] \in {"generate_cv", "generate_cl"}
    /\ session'.gemini_client # None
    /\ direct' = None

\* C16: for both generate buttons, the completion service is called only if
\* the CV text, the job description and the company name are all present;
\* if one is absent the rerun shows the error of the first absent one, in the
\* order CV text, job description, company name, makes no request and leaves
\* generated_latex, pdf_bytes and generated_cover_letter as they were.
C16_ValidatedBeforeAnyCall ==
    [][GenerateStep =>
         LET missing == FirstMissing(session'.cv_text, ui_job_description',
                                     ui_company_name')
         IN /\ shown' \cap MissingInputErrors = missing
            /\ requests' # <<>> <=> missing = {}
            /\ missing # {} =>
                  /\ session'.generated_latex = session.generated_latex
                  /\ session'.pdf_bytes = session.pdf_bytes
                  /\ session'.generated_cover_letter = session.generated_cover_letter
                  /\ requests' = <<>>]_vars

\* C16 witness: "Generate Cover Letter" was clicked with a CV text but
\* neither a job description nor a company name: the error is the one of the
\* job description, no request was made, and the CV, its PDF and the cover
\* letter of earlier generations are still there.
C16_Witness ==
    /\ event[1] = "generate_cl"
    /\ session.gemini_client # None
    /\ Truthy(session.cv_text)
    /\ ui_job_description = <<>>
    /\ ui_company_name = <<>>
    /\ shown \cap MissingInputErrors = {"Please enter the job description"}
    /\ requests = <<>>
    /\ Truthy(session.generated_latex)
    /\ session.pdf_bytes = PdfOf(session.generated_latex)
    /\ Truthy(session.generated_cover_letter)

\* a generate step that passed the input validation
ValidatedGenerateStep ==
    /\ GenerateStep
    /\ FirstMissing(session'.cv_text, ui_job_description', ui_company_name') = {}

\* C17: a CV generation that passes the validation sets generated_latex to
\* None and pdf_bytes to None (pdf_bytes stays absent when no PDF was ever
\* compiled) before the service is called, and a cover-letter generation
\* does so with generated_cover_letter: after the rerun the result is the
\* new one or, when the attempt failed, None, no PDF is left with a CV
\* attempt, and the result of the other kind is as it was.
C17_ResultsClearedBeforeTheCall ==
    [][ValidatedGenerateStep =>
         IF event'[1] = "generate_cv"
         THEN /\ session'.pdf_bytes = (IF session.pdf_bytes = ABSENT THEN ABSENT ELSE None)
              /\ event'[2] => session'.generated_latex = None
              /\ ~event'[2] => /\ session'.generated_latex # None
                               /\ "CV generated successfully" \in shown'
              /\ session'.generated_cover_letter = session.generated_cover_letter
         ELSE /\ event'[2] => session'.generated_cover_letter = None
              /\ ~event'[2] => /\ session'.generated_cover_letter # None
                               /\ "Cover letter generated successfully" \in shown'
              /\ session'.generated_latex = session.generated_latex
              /\ session'.pdf_bytes = session.pdf_bytes]_vars

\* C17 witness: a cover-letter generation that passed the validation has
\* failed: no cover letter is left, and the CV and its PDF of the earlier
\* generation are still there.
C17_Witness ==
    /\ event = <<"generate_cl", TRUE>>
    /\ Len(requests) = 1
    /\ session.generated_cover_letter = None
    /\ "Error generating cover letter" \in shown
    /\ Truthy(session.generated_latex)
    /\ session.pdf_bytes = PdfOf(session.generated_latex)

(***************************************************************************)
(* Vocabulary of the two-user claim.                                       *)
(***************************************************************************)
\* C18: with two sessions configured with different credentials, every
\* request made through a session's GeminiClient is made with the credential
\* that client was constructed with, which is the one its user entered:
\* constructing a client in one session never changes the credential of a
\* request of the other.
C18_RequestsUseOwnCredential ==
    \A i \in 1..Len(sent) :
        /\ sent[i].api_key = KeyOf(sent[i].user)
        /\ sent[i].used = sent[i].api_key

\* C19: at the end of each rerun of a session with a client (the uploader is
\* drawn only then): if a file is uploaded and its extraction gives a
\* non-empty text, cv_text is that text, also after the file was replaced by
\* one without text and uploaded again; and if no file is uploaded, cv_text
\* and last_parsed_file are both None.
C19_CvTextIsOfTheUploadedFile ==
    session.gemini_client # None =>
        /\ (uploaded_file # None /\ ExtractedText(uploaded_file) # None) =>
              session.cv_text = ExtractedText(uploaded_file)
        /\ uploaded_file = None =>
              (session.cv_text = None /\ session.last_parsed_file = None)

\* C20: whenever pdf_bytes is set in the session, so that a PDF is offered for
\* download, it is the output of a successful compile of the current value
\* of generated_latex: no PDF of an earlier LaTeX text is offered alongside a
\* different current text.
C20_PdfIsOfCurrentLatex ==
    session.pdf_bytes \notin {None, ABSENT} =>
        /\ Truthy(session.generated_latex)
        /\ session.pdf_bytes = PdfOf(session.generated_latex)

====
